---- MODULE Spec2Model ----
(***************************************************************************)
(* Verification model of the TUX Droid control core of Scayar/ScayTux:     *)
(* the action model and firmware code table (src/tux/actions.py), the real *)
(* USB transport TuxDriver and its command encoder (src/tux/driver.py),    *)
(* the simulated transport MockTuxDriver (src/stubs/mock_driver.py) and    *)
(* the TuxController facade (src/tux/controller.py).                       *)
(*                                                                         *)
(* Four specifications share the module:                                   *)
(*   SpecEnc  the pure command encoder applied to a bounded set of actions *)
(*   Spec     the transports as state machines driven by their callers     *)
(*   SpecMock the simulated transport driven through the actions that move *)
(*            the simulated device                                         *)
(*   SpecCtl  the TuxController over either transport, with the /tux/speak *)
(*            route that calls it                                          *)
(***************************************************************************)
EXTENDS Integers, Sequences, FiniteSets, TLC

VARIABLES
    enc_in,      \* SpecEnc: the TuxAction handed to the encoder
    enc_out,     \* SpecEnc: what lookup + _build_command produced for it
    driver_kind, \* which transport the process constructed: "hardware_usb" or "mock"
    \* environment of the real transport
    pyusb,                  \* the usb package can be imported
    present,                \* the dongle is plugged in
    kernel_active,          \* a kernel driver holds interface 0
    \* TuxDriver fields
    connected, device, endpoint_out, endpoint_in, last_error,
    commands_sent, commands_failed, kernel_driver_detached,
    \* MockTuxDriver fields
    mock_connected, mock_state, mock_history,
    res,         \* the last call: what it was given, what it returned and did
    \* TuxController
    last_action, \* TuxController._last_action
    result,      \* what the last Controller method handed to its caller
    route        \* position of the /tux/speak handler, with its request

----------------------------------------------------------------------------
(* Python values held in the untyped params bag: an int or a str.          *)

IntV(n) == [isStr |-> FALSE, s |-> "", n |-> n]
StrV(s) == [isStr |-> TRUE, s |-> s, n |-> 0]

\* dict.get(key, default)
Get(params, key, default) == IF key \in DOMAIN params THEN params[key] ELSE default

\* A Python call either returns a value or raises.
Returned(v) == [raised |-> FALSE, val |-> v]
Raised == [raised |-> TRUE, val |-> <<>>]

\* int(x): an int is itself, a decimal string is parsed, any other string
\* raises ValueError.
DecimalStrings == {"7"}
ParseDecimal(s) == CASE s = "7" -> 7
PyInt(v) ==
    IF ~v.isStr THEN Returned(v.n)
    ELSE IF v.s \in DecimalStrings THEN Returned(ParseDecimal(v.s))
    ELSE Raised

\* Mutant: an operand outside range(256) is reduced modulo 256.
PyBytes_Wraps(elems) ==
    IF \E i \in DOMAIN elems : elems[i].raised THEN Raised
    ELSE Returned([i \in DOMAIN elems |-> elems[i].val % 256])

\* bytes([a, b, c, d]) over already-converted operands: ValueError unless
\* every element is in range(256); a raise in any int() propagates.
PyBytes(elems) ==
    IF \E i \in DOMAIN elems : elems[i].raised THEN Raised
    ELSE IF \E i \in DOMAIN elems : elems[i].val \notin 0..255 THEN Raised
    ELSE Returned([i \in DOMAIN elems |-> elems[i].val])

----------------------------------------------------------------------------
(* Action model, src/tux/actions.py                                        *)

ActionType == {
    "blink_eyes", "open_eyes", "close_eyes", "stop_eyes",
    "move_mouth", "open_mouth", "close_mouth", "stop_mouth",
    "wave_wings", "raise_wings", "lower_wings", "stop_wings", "reset_wings",
    "spin_left", "spin_right", "stop_spin",
    "led_on", "led_off", "led_toggle", "led_pulse", "led_set_intensity",
    "play_sound", "mute", "unmute",
    "sleep", "wake_up",
    "ir_on", "ir_off", "ir_send" }

TuxAction(t, p) == [action_type |-> t, params |-> p]

NoParams == [k \in {} |-> IntV(0)]

\* Firmware command codes, decimal (hex in the source).
FIRMWARE_COMMANDS ==
    [t \in { "blink_eyes", "stop_eyes", "open_eyes", "close_eyes",
             "move_mouth", "open_mouth", "close_mouth", "stop_mouth",
             "wave_wings", "stop_wings", "reset_wings", "raise_wings",
             "lower_wings", "spin_left", "spin_right", "stop_spin",
             "led_on", "led_off", "led_toggle", "play_sound", "mute",
             "sleep", "wake_up", "ir_on", "ir_off", "ir_send" } |->
        CASE t = "blink_eyes"  -> 64     \* 0x40
          [] t = "stop_eyes"   -> 50     \* 0x32
          [] t = "open_eyes"   -> 51     \* 0x33
          [] t = "close_eyes"  -> 56     \* 0x38
          [] t = "move_mouth"  -> 65     \* 0x41
          [] t = "open_mouth"  -> 52     \* 0x34
          [] t = "close_mouth" -> 53     \* 0x35
          [] t = "stop_mouth"  -> 54     \* 0x36
          [] t = "wave_wings"  -> 128    \* 0x80
          [] t = "stop_wings"  -> 48     \* 0x30
          [] t = "reset_wings" -> 49     \* 0x31
          [] t = "raise_wings" -> 57     \* 0x39
          [] t = "lower_wings" -> 58     \* 0x3A
          [] t = "spin_left"   -> 130    \* 0x82
          [] t = "spin_right"  -> 131    \* 0x83
          [] t = "stop_spin"   -> 55     \* 0x37
          [] t = "led_on"      -> 26     \* 0x1A
          [] t = "led_off"     -> 27     \* 0x1B
          [] t = "led_toggle"  -> 154    \* 0x9A
          [] t = "play_sound"  -> 144    \* 0x90
          [] t = "mute"        -> 146    \* 0x92
          [] t = "sleep"       -> 183    \* 0xB7
          [] t = "wake_up"     -> 183    \* 0xB7
          [] t = "ir_on"       -> 23     \* 0x17
          [] t = "ir_off"      -> 24     \* 0x18
          [] t = "ir_send"     -> 145 ]  \* 0x91

\* FIRMWARE_COMMANDS.get(action_type): the code, or None.
None == 0 - 1
LookupCode(t) == IF t \in DOMAIN FIRMWARE_COMMANDS THEN FIRMWARE_COMMANDS[t] ELSE None

----------------------------------------------------------------------------
(* Command encoder, TuxDriver._build_command                               *)

TargetMap(s) == CASE s = "both" -> 3 [] s = "left" -> 1 [] s = "right" -> 2 [] OTHER -> 1

ModeMap(v) ==
    IF ~v.isStr THEN 2
    ELSE CASE v.s = "awake" -> 0 [] v.s = "quick" -> 1
           [] v.s = "normal" -> 2 [] v.s = "deep" -> 4 [] OTHER -> 2

\* Mutant: the fallback chain probes "target" before "count".
OneParam_TargetFirst(params) ==
    LET param1 == Get(params, "target", Get(params, "count", Get(params, "state", IntV(1))))
    IN  IF param1.isStr THEN IntV(TargetMap(param1.s)) ELSE param1

OneParam(params) ==
    LET param1 == Get(params, "count", Get(params, "target", Get(params, "state", IntV(1))))
    IN  IF param1.isStr THEN IntV(TargetMap(param1.s)) ELSE param1

\* Mutant: the fallback chain probes "angle" before "count".
TwoParam1_AngleFirst(params) == Get(params, "angle", Get(params, "count", IntV(1)))

TwoParam1(params) == Get(params, "count", Get(params, "angle", IntV(1)))

TwoParam2(params) ==
    Get(params, "speed", Get(params, "delay", Get(params, "volume", IntV(3))))

ThreeParam1(action) ==
    IF action.action_type = "sleep"
        THEN IntV(ModeMap(Get(action.params, "mode", StrV("normal"))))
    ELSE IF action.action_type = "wake_up" THEN IntV(0)
    ELSE Get(action.params, "param1", Get(action.params, "mode", IntV(0)))

\* Mutant: a void command is emitted as the bare code, without padding.
BuildCommand_NoPad(action, command_code) ==
    LET params == action.params
        code   == Returned(command_code)
        zero   == Returned(0)
    IN  IF command_code < 64 THEN
            PyBytes(<<code>>)
        ELSE IF command_code < 128 THEN
            PyBytes(<<code, PyInt(OneParam(params)), zero, zero>>)
        ELSE IF command_code < 192 THEN
            PyBytes(<<code, PyInt(TwoParam1(params)), PyInt(TwoParam2(params)), zero>>)
        ELSE
            PyBytes(<<code, PyInt(ThreeParam1(action)),
                      PyInt(Get(params, "param2", IntV(0))),
                      PyInt(Get(params, "param3", IntV(0)))>>)

\* Mutant: a void command carries the one-parameter payload.
BuildCommand_VoidTakesParam(action, command_code) ==
    LET params == action.params
        code   == Returned(command_code)
        zero   == Returned(0)
    IN  IF command_code < 128 THEN
            PyBytes(<<code, PyInt(OneParam(params)), zero, zero>>)
        ELSE IF command_code < 192 THEN
            PyBytes(<<code, PyInt(TwoParam1(params)), PyInt(TwoParam2(params)), zero>>)
        ELSE
            PyBytes(<<code, PyInt(ThreeParam1(action)),
                      PyInt(Get(params, "param2", IntV(0))),
                      PyInt(Get(params, "param3", IntV(0)))>>)

BuildCommand(action, command_code) ==
    LET params == action.params
        code   == Returned(command_code)
        zero   == Returned(0)
    IN  IF command_code < 64 THEN
            PyBytes(<<code, zero, zero, zero>>)
        ELSE IF command_code < 128 THEN
            PyBytes(<<code, PyInt(OneParam(params)), zero, zero>>)
        ELSE IF command_code < 192 THEN
            PyBytes(<<code, PyInt(TwoParam1(params)), PyInt(TwoParam2(params)), zero>>)
        ELSE
            PyBytes(<<code, PyInt(ThreeParam1(action)),
                      PyInt(Get(params, "param2", IntV(0))),
                      PyInt(Get(params, "param3", IntV(0)))>>)

----------------------------------------------------------------------------
(* SpecEnc: the encoder applied to a bounded set of actions.               *)

MaxParams == 2

ParamKeys == { "count", "target", "state", "angle", "speed", "delay",
               "volume", "mode", "sound_number" }

\* Sample values per key: bytes at both ends of the range, one value past
\* it, and the strings the callers pass (plus strings no table knows).
ValuesOf(k) ==
    CASE k = "count"  -> { IntV(0), IntV(2), IntV(255), IntV(256), StrV("left"), StrV("7") }
      [] k = "target" -> { StrV("both"), StrV("left"), StrV("right"), StrV("zzz") }
      [] k = "state"  -> { IntV(0), IntV(1) }
      [] k = "angle"  -> { IntV(4), IntV(8), IntV(-1) }
      [] k = "speed"  -> { IntV(3), IntV(5), StrV("fast") }
      [] k = "delay"  -> { IntV(25), IntV(300) }
      [] k = "volume" -> { IntV(0), IntV(100) }
      [] k = "mode"   -> { StrV("awake"), StrV("quick"), StrV("normal"),
                           StrV("deep"), StrV("zzz") }
      [] k = "sound_number" -> { IntV(0), IntV(9) }

ParamBags ==
    UNION { { p \in [ks -> UNION { ValuesOf(k) : k \in ks }] :
                \A k \in ks : p[k] \in ValuesOf(k) } :
            ks \in { s \in SUBSET ParamKeys : Cardinality(s) <= MaxParams } }

EncInputs == { TuxAction(t, p) : t \in ActionType, p \in ParamBags }

NotEncoded == [kind |-> "pending", code |-> None, bytes |-> <<>>]

\* execute_action's lookup followed by _build_command.
Encoding(action) ==
    LET command_code == LookupCode(action.action_type)
    IN  IF command_code = None
            THEN [kind |-> "unknown", code |-> None, bytes |-> <<>>]
        ELSE LET r == BuildCommand(action, command_code)
             IN  IF r.raised
                     THEN [kind |-> "raised", code |-> command_code, bytes |-> <<>>]
                     ELSE [kind |-> "bytes", code |-> command_code, bytes |-> r.val]

----------------------------------------------------------------------------
(* State shared by the transports.                                         *)

CMD_SIZE == 4

NoDevice == "None"          \* self._device is None
Dev      == "usb_device"    \* the object usb.core.find returned
NoError  == "None"          \* self._last_error is None

MaxCmds   == 2              \* cap on each of the two command counters
MaxCmdLen == 5              \* longest raw command handed to send_command
MaxHist   == 2              \* cap on the simulated transport's history

\* bytes.ljust(width, b'\x00') and bytes[:n]
LJust(b, width) ==
    IF Len(b) >= width THEN b ELSE b \o [i \in 1..(width - Len(b)) |-> 0]
Prefix(b, n) == SubSeq(b, 1, IF Len(b) < n THEN Len(b) ELSE n)

\* Mutant: the command is padded but never truncated.
PadCommand_NoTruncate(command) == LJust(command, CMD_SIZE)

\* command.ljust(CMD_SIZE, b'\x00')[:CMD_SIZE]
PadCommand(command) == Prefix(LJust(command, CMD_SIZE), CMD_SIZE)

\* What a call did and returned.  pre_* are the values read at call entry;
\* detached: the call detached the kernel driver; probe: how _send_ping
\* went, probe_connected: self._connected when it was called.
NoCall ==
    [ op |-> "init", cmd |-> <<>>, action |-> TuxAction("none", <<>>),
      ret |-> TRUE, raised |-> FALSE,
      writes |-> <<>>, disposed |-> FALSE, reattached |-> FALSE,
      detached |-> FALSE, probe |-> "none", probe_connected |-> FALSE,
      after_disconnect |-> FALSE, pre_is_connected |-> FALSE,
      pre_connected |-> FALSE, pre_device |-> NoDevice,
      pre_sent |-> 0, pre_failed |-> 0, pre_hist |-> 0 ]

----------------------------------------------------------------------------
(* Real transport, TuxDriver (src/tux/driver.py)                           *)

IsReal == driver_kind = "hardware_usb"

is_connected == connected /\ device # NoDevice

mock_vars == <<mock_connected, mock_state, mock_history>>
enc_vars  == <<enc_in, enc_out>>
env_vars  == <<pyusb, present, kernel_active>>
real_vars == <<connected, device, endpoint_out, endpoint_in, last_error,
               commands_sent, commands_failed, kernel_driver_detached>>

Call(op) ==
    [ NoCall EXCEPT !.op = op, !.after_disconnect = (res.op = "disconnect"),
                    !.pre_is_connected = IF IsReal THEN is_connected ELSE mock_connected,
                    !.pre_connected = connected, !.pre_device = device,
                    !.pre_sent = commands_sent, !.pre_failed = commands_failed,
                    !.pre_hist = Len(mock_history) ]

\* A device write as the device sees it: the payload, the channel (the OUT
\* endpoint, or a SET_REPORT control transfer without one) and whether the
\* transfer went through (a USBError or timeout otherwise).
Write(data, has_out, ok) ==
    [data |-> data, via |-> IF has_out THEN "endpoint" ELSE "control", ok |-> ok]

\* _usb_write: [ret, writes]
usb_write(data, write_ok) ==
    IF device = NoDevice THEN [ret |-> FALSE, writes |-> <<>>]
    ELSE [ret |-> write_ok,
          writes |-> <<Write(PadCommand(data), endpoint_out, write_ok)>>]

\* Outcomes of a transfer: it cannot succeed with the dongle unplugged.
WriteOutcomes == IF present THEN BOOLEAN ELSE {FALSE}

\* Where connect() can fail once the device was found.
ConnectFaults == { "none",
                   "kernel_query_usb",    \* USBError from is_kernel_driver_active
                   "kernel_query_other",  \* any other exception there
                   "get_config_usb",      \* USBError from get_active_configuration
                   "get_config_other" }   \* any other exception resolving the interface

PING == <<127, 1, 0, 0>>

\* _send_ping: the write fails, or it goes through and _usb_read(500)
\* returns None (timeout, error) or the reply.
ProbeOutcomes(ping_ok) == IF ping_ok THEN {"no_reply", "reply"} ELSE {"write_failed"}

\* Mutant: connect() returns what the probe returned.
ConnectReturn_ProbeResult(probe) == probe # "write_failed"

\* self._send_ping(); return True
ConnectReturn(probe) == TRUE

connect(fault, detach_ok, ep_out, ep_in, ping_ok) ==
    /\ IsReal
    /\ UNCHANGED <<commands_sent, commands_failed, driver_kind, pyusb, present>>
    /\ UNCHANGED <<mock_vars, enc_vars>>
    /\ IF ~pyusb THEN
            /\ last_error' = "pyusb not installed. Run: pip install pyusb"
            /\ res' = [Call("connect") EXCEPT !.ret = FALSE]
            /\ UNCHANGED <<connected, device, endpoint_out, endpoint_in,
                           kernel_driver_detached, kernel_active>>
       ELSE IF ~present THEN
            \* _find_tux_device returned None
            /\ device' = NoDevice
            /\ last_error' = "TUX Droid device not found"
            /\ res' = [Call("connect") EXCEPT !.ret = FALSE]
            /\ UNCHANGED <<connected, endpoint_out, endpoint_in,
                           kernel_driver_detached, kernel_active>>
       ELSE
            /\ device' = Dev
            /\ IF fault \in {"kernel_query_usb", "kernel_query_other"} THEN
                    /\ last_error' = IF fault = "kernel_query_usb"
                                         THEN "USB error: <e>" ELSE "Connection failed: <e>"
                    /\ res' = [Call("connect") EXCEPT !.ret = FALSE]
                    /\ UNCHANGED <<connected, endpoint_out, endpoint_in,
                                   kernel_driver_detached, kernel_active>>
               ELSE
                    \* detach the kernel driver if one is active
                    /\ kernel_active' = (kernel_active /\ ~detach_ok)
                    /\ kernel_driver_detached' =
                          (kernel_driver_detached \/ (kernel_active /\ detach_ok))
                    /\ IF fault \in {"get_config_usb", "get_config_other"} THEN
                            /\ last_error' = IF fault = "get_config_usb"
                                                 THEN "USB error: <e>"
                                                 ELSE "Connection failed: <e>"
                            /\ res' = [Call("connect") EXCEPT
                                         !.ret = FALSE,
                                         !.detached = (kernel_active /\ detach_ok)]
                            /\ UNCHANGED <<connected, endpoint_out, endpoint_in>>
                       ELSE
                            /\ endpoint_out' = ep_out
                            /\ endpoint_in' = ep_in
                            /\ connected' = TRUE
                            /\ last_error' = NoError
                            \* _send_ping: one write, then a read if it went
                            \* through; its result is dropped
                            /\ \E probe \in ProbeOutcomes(ping_ok) :
                                   res' = [Call("connect") EXCEPT
                                             !.ret = ConnectReturn(probe),
                                             !.detached = (kernel_active /\ detach_ok),
                                             !.probe = probe,
                                             !.probe_connected = connected',
                                             !.writes = <<Write(PadCommand(PING), ep_out,
                                                                  ping_ok)>>]

\* Endpoint layouts of interface 0: <<OUT found, IN found>>.  Without an
\* OUT endpoint the driver falls back to control transfers.
EndpointLayouts == { <<TRUE, TRUE>>, <<FALSE, TRUE>> }

\* The outcomes connect() can meet, each with the choices that matter to it.
ConnectOutcomes ==
    { <<f, FALSE, <<FALSE, FALSE>>, FALSE>> :
          f \in {"kernel_query_usb", "kernel_query_other"} } \cup
    { <<f, d, <<FALSE, FALSE>>, FALSE>> :
          f \in {"get_config_usb", "get_config_other"}, d \in BOOLEAN } \cup
    { <<"none", d, ep, ok>> :
          d \in BOOLEAN, ep \in EndpointLayouts, ok \in WriteOutcomes }

Connect ==
    \E o \in ConnectOutcomes : connect(o[1], o[2], o[3][1], o[3][2], o[4])

\* disconnect() with the value it leaves in self._device
disconnect_to(attach_ok, device_after) ==
    /\ IsReal
    /\ UNCHANGED <<commands_sent, commands_failed, kernel_driver_detached,
                   driver_kind, pyusb, present>>
    /\ UNCHANGED <<mock_vars, enc_vars>>
    /\ IF ~pyusb THEN
            \* "import usb.util" raises inside the try
            /\ last_error' = "Disconnect error: <e>"
            /\ res' = [Call("disconnect") EXCEPT !.ret = FALSE]
            /\ UNCHANGED <<connected, device, endpoint_out, endpoint_in, kernel_active>>
       ELSE
            \* dispose_resources and attach_kernel_driver run only on a held
            \* device; their own failures are swallowed
            /\ kernel_active' =
                  (kernel_active \/ (device # NoDevice /\ kernel_driver_detached /\ attach_ok))
            /\ connected' = FALSE
            /\ device' = device_after
            /\ endpoint_out' = FALSE
            /\ endpoint_in' = FALSE
            /\ res' = [Call("disconnect") EXCEPT
                         !.ret = TRUE,
                         !.disposed = (device # NoDevice),
                         !.reattached = (device # NoDevice /\ kernel_driver_detached)]
            /\ UNCHANGED last_error

\* Mutant: the device reference is kept across disconnect.
disconnect_KeepDevice(attach_ok) == disconnect_to(attach_ok, device)

disconnect(attach_ok) == disconnect_to(attach_ok, NoDevice)

Disconnect == \E attach_ok \in WriteOutcomes : disconnect(attach_ok)

\* Mutant: a send while not connected is refused without being counted.
send_result_NoCount(command, write_ok) ==
    IF ~is_connected
        THEN [ret |-> FALSE, writes |-> <<>>, sent |-> commands_sent,
              failed |-> commands_failed]
    ELSE LET w == usb_write(PadCommand(command), write_ok)
         IN  [ret |-> w.ret, writes |-> w.writes,
              sent |-> IF w.ret THEN commands_sent + 1 ELSE commands_sent,
              failed |-> IF w.ret THEN commands_failed ELSE commands_failed + 1]

\* Mutant: a failed write is counted in both counters.
send_result_CountsBoth(command, write_ok) ==
    IF ~is_connected
        THEN [ret |-> FALSE, writes |-> <<>>, sent |-> commands_sent,
              failed |-> commands_failed + 1]
    ELSE LET w == usb_write(PadCommand(command), write_ok)
         IN  [ret |-> w.ret, writes |-> w.writes,
              sent |-> commands_sent + 1,
              failed |-> IF w.ret THEN commands_failed ELSE commands_failed + 1]

\* send_command as a function of the state: what it returns, what it
\* writes and the two counters afterwards.
send_result(command, write_ok) ==
    IF ~is_connected
        THEN [ret |-> FALSE, writes |-> <<>>, sent |-> commands_sent,
              failed |-> commands_failed + 1]
    ELSE LET w == usb_write(PadCommand(command), write_ok)
         IN  [ret |-> w.ret, writes |-> w.writes,
              sent |-> IF w.ret THEN commands_sent + 1 ELSE commands_sent,
              failed |-> IF w.ret THEN commands_failed ELSE commands_failed + 1]

\* (the except branch of send_command needs a command that is not bytes;
\* every caller passes bytes)
send_command(command, write_ok) ==
    /\ IsReal
    /\ commands_sent < MaxCmds /\ commands_failed < MaxCmds
    /\ LET r == send_result(command, write_ok)
       IN  /\ commands_sent' = r.sent
           /\ commands_failed' = r.failed
           /\ res' = [Call("send_command") EXCEPT
                        !.cmd = command, !.ret = r.ret, !.writes = r.writes]
    /\ UNCHANGED <<connected, device, endpoint_out, endpoint_in, last_error,
                   kernel_driver_detached>>
    /\ UNCHANGED <<driver_kind, env_vars, mock_vars, enc_vars>>

\* Raw commands the callers send: every prefix of one byte pattern that
\* holds 255, 0 and distinct bytes after them, so that padding and
\* truncation are both visible.
CommandSamples ==
    { [i \in 1..n |-> IF i = 1 THEN 255 ELSE IF i = 2 THEN 0 ELSE 64 + i] :
          n \in 0..MaxCmdLen }

SendCommand ==
    \E command \in CommandSamples, write_ok \in WriteOutcomes :
        send_command(command, write_ok)

execute_action(action, write_ok) ==
    /\ IsReal
    /\ commands_sent < MaxCmds /\ commands_failed < MaxCmds
    /\ UNCHANGED <<connected, device, endpoint_out, endpoint_in,
                   kernel_driver_detached>>
    /\ UNCHANGED <<driver_kind, env_vars, mock_vars, enc_vars>>
    /\ IF ~is_connected THEN
            /\ res' = [Call("execute_action") EXCEPT !.action = action, !.ret = FALSE]
            /\ UNCHANGED <<last_error, commands_sent, commands_failed>>
       ELSE LET command_code == LookupCode(action.action_type)
            IN  IF command_code = None THEN
                    /\ res' = [Call("execute_action") EXCEPT
                                 !.action = action, !.ret = FALSE]
                    /\ UNCHANGED <<last_error, commands_sent, commands_failed>>
                ELSE LET command_bytes == BuildCommand(action, command_code)
                     IN  IF command_bytes.raised THEN
                             /\ last_error' = "Execute action failed: <e>"
                             /\ res' = [Call("execute_action") EXCEPT
                                          !.action = action, !.ret = FALSE]
                             /\ UNCHANGED <<commands_sent, commands_failed>>
                         ELSE LET r == send_result(command_bytes.val, write_ok)
                              IN  /\ commands_sent' = r.sent
                                  /\ commands_failed' = r.failed
                                  /\ res' = [Call("execute_action") EXCEPT
                                               !.action = action, !.cmd = command_bytes.val,
                                               !.ret = r.ret, !.writes = r.writes]
                                  /\ UNCHANGED last_error

\* Parameter bags as the factories of TuxAction build them.
P1(k, v) == [x \in {k} |-> v]
P2(k1, v1, k2, v2) == [x \in {k1, k2} |-> IF x = k1 THEN v1 ELSE v2]

\* Actions the callers dispatch: what the Controller's methods construct,
\* a count no byte can hold, a negative angle, a sound number no byte can
\* hold, and a type no table knows.
ActionSamples ==
    { TuxAction("blink_eyes", P1("count", IntV(3))),
      TuxAction("blink_eyes", P1("count", IntV(256))),
      TuxAction("open_eyes", NoParams),
      TuxAction("wave_wings", P2("count", IntV(2), "speed", IntV(5))),
      TuxAction("spin_right", P2("angle", IntV(8), "speed", IntV(3))),
      TuxAction("spin_left", P2("angle", IntV(-1), "speed", IntV(3))),
      TuxAction("play_sound", P2("sound_number", IntV(300), "volume", IntV(100))),
      TuxAction("led_on", P1("target", StrV("left"))),
      TuxAction("led_pulse", P2("target", StrV("both"), "count", IntV(5))),
      TuxAction("unmute", P1("state", IntV(0))),
      TuxAction("sleep", P1("mode", StrV("deep"))),
      TuxAction("bogus_type", NoParams) }

ExecuteAction ==
    \E action \in ActionSamples, write_ok \in WriteOutcomes :
        execute_action(action, write_ok)

\* The environment: the dongle is pulled or plugged back in.
Unplug ==
    /\ IsReal /\ present
    /\ present' = FALSE
    /\ kernel_active' = FALSE
    /\ UNCHANGED <<pyusb, driver_kind, real_vars, mock_vars, enc_vars, res>>

Plug ==
    /\ IsReal /\ ~present
    /\ present' = TRUE
    /\ kernel_active' \in BOOLEAN
    /\ UNCHANGED <<pyusb, driver_kind, real_vars, mock_vars, enc_vars, res>>

----------------------------------------------------------------------------
(* Simulated transport, MockTuxDriver (src/stubs/mock_driver.py)           *)

IsMock == driver_kind = "mock"

DefaultState ==
    [ eyes |-> "open", mouth |-> "closed", wings |-> "lowered",
      leds_left |-> "off", leds_right |-> "off", sleeping |-> FALSE,
      rotation |-> 0 ]

\* _log_action: the appended entry (the wall-clock timestamp is left out)
\* Mutant: the newest entry is put in front.
log_action_AtFront(history, action, params, message, state) ==
    <<[action |-> action, params |-> params, message |-> message,
       state_snapshot |-> state]>> \o history

log_action(history, action, params, message, state) ==
    Append(history, [action |-> action, params |-> params, message |-> message,
                     state_snapshot |-> state])

\* An f-string: its literal text and the values formatted into it.
Msg(text) == [text |-> text, args |-> <<>>]

\* Mutant: the values are left out of the message.
Fmt_NoArgs(text, args) == [text |-> text, args |-> <<>>]

Fmt(text, args) == [text |-> text, args |-> args]

\* _update_state: the state afterwards, the message, and whether it raised
\* (arithmetic on a str angle, or .value on a type that is no ActionType).
Updated(state, message) == [raised |-> FALSE, state |-> state, message |-> message]
UpdateRaised(state) == [raised |-> TRUE, state |-> state, message |-> Msg("")]

\* Mutant: the new rotation is not reduced mod 360.
SpinLeft_NoWrap(rotation, angle) == rotation - angle * 45

\* (self._state["rotation"] - angle * 45) % 360, and its mirror image
SpinLeft(rotation, angle) == (rotation - angle * 45) % 360
SpinRight(rotation, angle) == (rotation + angle * 45) % 360

\* Mutant: the target is ignored, the LED is always set.
LedAfter_AnyTarget(current, target, side, value) == value

\* if target in ["both", side]: self._state["leds_" + side] = value
LedAfter(current, target, side, value) ==
    IF target \in {StrV("both"), StrV(side)} THEN value ELSE current

update_state(state, action_type, params) ==
    LET count1 == Get(params, "count", IntV(1))
        angle  == Get(params, "angle", IntV(4))
        speed  == Get(params, "speed", IntV(3))
        target == Get(params, "target", StrV("both"))
    IN  CASE action_type = "blink_eyes" ->
                Updated(state, Fmt("Eyes blinked {} time(s)", <<count1>>))
          [] action_type = "open_eyes" ->
                Updated([state EXCEPT !.eyes = "open"], Msg("Eyes are now open"))
          [] action_type = "close_eyes" ->
                Updated([state EXCEPT !.eyes = "closed"], Msg("Eyes are now closed"))
          [] action_type = "stop_eyes" ->
                Updated(state, Msg("Eye movement stopped"))
          [] action_type = "move_mouth" ->
                Updated(state, Fmt("Mouth moved {} time(s)", <<count1>>))
          [] action_type = "open_mouth" ->
                Updated([state EXCEPT !.mouth = "open"], Msg("Mouth is now open"))
          [] action_type = "close_mouth" ->
                Updated([state EXCEPT !.mouth = "closed"], Msg("Mouth is now closed"))
          [] action_type = "stop_mouth" ->
                Updated(state, Msg("Mouth movement stopped"))
          [] action_type = "wave_wings" ->
                Updated(state, Fmt("Wings waved {} time(s) at speed {}", <<count1, speed>>))
          [] action_type = "raise_wings" ->
                Updated([state EXCEPT !.wings = "raised"], Msg("Wings are now raised"))
          [] action_type = "lower_wings" ->
                Updated([state EXCEPT !.wings = "lowered"], Msg("Wings are now lowered"))
          [] action_type = "stop_wings" ->
                Updated(state, Msg("Wing movement stopped"))
          [] action_type = "reset_wings" ->
                Updated([state EXCEPT !.wings = "lowered"],
                        Msg("Wings reset to default position"))
          [] action_type = "spin_left" ->
                IF angle.isStr THEN UpdateRaised(state)
                ELSE Updated([state EXCEPT !.rotation = SpinLeft(@, angle.n)],
                             Fmt("Spun left {} units at speed {}", <<angle, speed>>))
          [] action_type = "spin_right" ->
                IF angle.isStr THEN UpdateRaised(state)
                ELSE Updated([state EXCEPT !.rotation = SpinRight(@, angle.n)],
                             Fmt("Spun right {} units at speed {}", <<angle, speed>>))
          [] action_type = "stop_spin" ->
                Updated(state, Msg("Spinning stopped"))
          [] action_type = "led_on" ->
                Updated([state EXCEPT
                           !.leds_left = LedAfter(@, target, "left", "on"),
                           !.leds_right = LedAfter(@, target, "right", "on")],
                        Fmt("LED(s) {} turned on", <<target>>))
          [] action_type = "led_off" ->
                Updated([state EXCEPT
                           !.leds_left = LedAfter(@, target, "left", "off"),
                           !.leds_right = LedAfter(@, target, "right", "off")],
                        Fmt("LED(s) {} turned off", <<target>>))
          [] action_type = "led_toggle" ->
                Updated(state, Fmt("LEDs toggled {} time(s)", <<count1>>))
          [] action_type = "led_pulse" ->
                Updated(state, Fmt("LEDs pulsed {} time(s)",
                                   <<Get(params, "count", IntV(5))>>))
          [] action_type = "play_sound" ->
                Updated(state, Fmt("Playing sound #{} at volume {}",
                                   <<Get(params, "sound_number", IntV(0)),
                                     Get(params, "volume", IntV(100))>>))
          [] action_type = "mute" ->
                Updated(state, Msg("Audio muted"))
          [] action_type = "unmute" ->
                Updated(state, Msg("Audio unmuted"))
          [] action_type = "sleep" ->
                Updated([state EXCEPT !.sleeping = TRUE],
                        Fmt("TUX is now sleeping (mode: {})",
                            <<Get(params, "mode", StrV("normal"))>>))
          [] action_type = "wake_up" ->
                Updated([state EXCEPT !.sleeping = FALSE], Msg("TUX is now awake"))
          [] OTHER ->
                IF action_type \in ActionType
                    THEN Updated(state, Fmt("Action {} executed", <<StrV(action_type)>>))
                    ELSE UpdateRaised(state)

mock_connect ==
    /\ IsMock
    /\ Len(mock_history) < MaxHist
    /\ mock_connected' = TRUE
    /\ mock_history' = log_action(mock_history, "CONNECT", NoParams,
                                  Msg("Connected to virtual TUX Droid"), mock_state)
    /\ res' = [Call("connect") EXCEPT !.ret = TRUE]
    /\ UNCHANGED <<mock_state, driver_kind, env_vars, real_vars, enc_vars>>

\* Mutant: disconnect() puts the device back in its default state.
mock_disconnect_ResetsState ==
    /\ IsMock
    /\ Len(mock_history) < MaxHist
    /\ mock_connected' = FALSE
    /\ mock_state' = DefaultState
    /\ mock_history' = log_action(mock_history, "DISCONNECT", NoParams,
                                  Msg("Disconnected from virtual TUX Droid"), DefaultState)
    /\ res' = [Call("disconnect") EXCEPT !.ret = TRUE]
    /\ UNCHANGED <<driver_kind, env_vars, real_vars, enc_vars>>

mock_disconnect ==
    /\ IsMock
    /\ Len(mock_history) < MaxHist
    /\ mock_connected' = FALSE
    /\ mock_history' = log_action(mock_history, "DISCONNECT", NoParams,
                                  Msg("Disconnected from virtual TUX Droid"), mock_state)
    /\ res' = [Call("disconnect") EXCEPT !.ret = TRUE]
    /\ UNCHANGED <<mock_state, driver_kind, env_vars, real_vars, enc_vars>>

mock_send_command(command) ==
    /\ IsMock
    /\ res' = [Call("send_command") EXCEPT !.cmd = command, !.ret = mock_connected]
    /\ UNCHANGED <<mock_vars, driver_kind, env_vars, real_vars, enc_vars>>

MockSendCommand ==
    \E command \in { c \in CommandSamples : Len(c) \in {0, CMD_SIZE} } :
        mock_send_command(command)

mock_execute_action(action) ==
    /\ IsMock
    /\ UNCHANGED <<mock_connected, driver_kind, env_vars, real_vars, enc_vars>>
    /\ IF ~mock_connected THEN
            /\ res' = [Call("execute_action") EXCEPT !.action = action, !.ret = FALSE]
            /\ UNCHANGED <<mock_state, mock_history>>
       ELSE LET u == update_state(mock_state, action.action_type, action.params)
            IN  /\ mock_state' = u.state
                /\ IF u.raised \/ action.action_type \notin ActionType THEN
                        \* the exception leaves before _log_action
                        /\ res' = [Call("execute_action") EXCEPT
                                     !.action = action, !.ret = FALSE, !.raised = TRUE]
                        /\ UNCHANGED mock_history
                   ELSE
                        /\ Len(mock_history) < MaxHist
                        /\ mock_history' = log_action(mock_history, action.action_type,
                                                      action.params, u.message, u.state)
                        /\ res' = [Call("execute_action") EXCEPT
                                     !.action = action, !.ret = TRUE]

\* What the simulated transport is asked to do: actions that change the
\* simulated state and actions that undo it, one that changes nothing, one
\* the firmware table lacks, and a type that is no ActionType.
MockActionSamples ==
    { TuxAction("blink_eyes", P1("count", IntV(3))),
      TuxAction("open_eyes", NoParams),
      TuxAction("close_eyes", NoParams),
      TuxAction("spin_right", P2("angle", IntV(8), "speed", IntV(3))),
      TuxAction("led_on", P1("target", StrV("left"))),
      TuxAction("led_off", P1("target", StrV("both"))),
      TuxAction("led_pulse", P2("target", StrV("both"), "count", IntV(5))),
      TuxAction("sleep", P1("mode", StrV("deep"))),
      TuxAction("bogus_type", NoParams) }

MockExecuteAction == \E action \in MockActionSamples : mock_execute_action(action)

\* Actions that move the simulated device: quarter turns to the left that
\* pass below zero, a full turn either way, each LED target, and a blink.
DeviceActionSamples ==
    { TuxAction("blink_eyes", P1("count", IntV(3))),
      TuxAction("spin_left", P2("angle", IntV(2), "speed", IntV(3))),
      TuxAction("spin_right", P2("angle", IntV(8), "speed", IntV(3))),
      TuxAction("spin_left", P2("angle", IntV(8), "speed", IntV(3))),
      TuxAction("led_on", P1("target", StrV("left"))),
      TuxAction("led_on", P1("target", StrV("right"))),
      TuxAction("led_off", P1("target", StrV("both"))) }

DeviceExecuteAction == \E action \in DeviceActionSamples : mock_execute_action(action)

mock_clear_history ==
    /\ IsMock
    /\ mock_history' = <<>>
    /\ res' = Call("clear_history")
    /\ UNCHANGED <<mock_connected, mock_state, driver_kind, env_vars, real_vars, enc_vars>>

\* Mutant: reset_state() also drops the history.
mock_reset_state_ClearsHistory ==
    /\ IsMock
    /\ mock_state' = DefaultState
    /\ mock_history' = <<>>
    /\ res' = Call("reset_state")
    /\ UNCHANGED <<mock_connected, driver_kind, env_vars, real_vars, enc_vars>>

mock_reset_state ==
    /\ IsMock
    /\ mock_state' = DefaultState
    /\ res' = Call("reset_state")
    /\ UNCHANGED <<mock_connected, mock_history, driver_kind, env_vars, real_vars,
                   enc_vars>>

----------------------------------------------------------------------------
(* Status reports of the transports                                        *)

\* TuxDriver.get_status
get_status ==
    [ connected |-> is_connected, device_path |-> "/dev/ttyUSB0",
      driver_type |-> "hardware_usb",
      usb_vendor_id |-> "0x03EB", usb_product_id |-> "0xFF07",
      commands_sent |-> commands_sent, commands_failed |-> commands_failed,
      last_error |-> last_error ]

\* MockTuxDriver.get_status
mock_get_status ==
    [ connected |-> mock_connected, driver_type |-> "mock",
      simulated_state |-> mock_state,
      actions_executed |-> Len(mock_history) ]

----------------------------------------------------------------------------
(* TuxController (src/tux/controller.py) over the transport the process    *)
(* constructed, and the /tux/speak route (src/backend/routes/tux_routes.py)*)

NoAction == TuxAction("None", NoParams)      \* self._last_action is None
NoResult == [success |-> FALSE, action |-> "None", params |-> NoParams,
             message |-> Msg("")]            \* nothing returned yet
Idle == [pc |-> "idle", text |-> "", language |-> ""]

\* connect() and disconnect() hand back the transport's boolean.
Bool(b) == [value |-> b]

ctl_vars == <<last_action, result, route>>

\* self.driver.is_connected()
controller_is_connected == IF IsReal THEN is_connected ELSE mock_connected

\* Mutant: connect() forgets the last action.
controller_connect_ForgetsAction ==
    /\ route = Idle
    /\ (Connect \/ mock_connect)
    /\ result' = Bool(res'.ret)
    /\ last_action' = NoAction
    /\ UNCHANGED route

\* TuxController.connect: delegates to the transport
controller_connect ==
    /\ route = Idle
    /\ (Connect \/ mock_connect)
    /\ result' = Bool(res'.ret)
    /\ UNCHANGED <<last_action, route>>

\* TuxController.disconnect: delegates to the transport
controller_disconnect ==
    /\ route = Idle
    /\ (Disconnect \/ mock_disconnect)
    /\ result' = Bool(res'.ret)
    /\ UNCHANGED <<last_action, route>>

\* Mutant: the record always reports what the transport returned as a
\* success.
ExecuteResult_AlwaysSuccess(action, success, raised) ==
    [ success |-> TRUE, action |-> action.action_type, params |-> action.params,
      message |-> Fmt("Action '{}' executed successfully",
                      <<StrV(action.action_type)>>) ]

\* The record _execute returns: from the try block when execute_action
\* returned, from the except block when it raised.
ExecuteResult(action, success, raised) ==
    IF raised
        THEN [ success |-> FALSE, action |-> action.action_type,
               params |-> action.params, message |-> Msg("str(e)") ]
        ELSE [ success |-> success, action |-> action.action_type,
               params |-> action.params,
               message |-> IF success
                               THEN Fmt("Action '{}' executed successfully",
                                        <<StrV(action.action_type)>>)
                               ELSE Msg("Action failed") ]

\* TuxController._execute, reached through one of the action methods
controller_execute(action) ==
    /\ last_action' = action
    /\ \/ \E write_ok \in WriteOutcomes : execute_action(action, write_ok)
       \/ mock_execute_action(action)
    /\ result' = ExecuteResult(action, res'.ret, res'.raised)

\* What the action methods build from arguments the boundary layer let
\* through: one action per arity class of the encoder, a type the
\* firmware table lacks, and a spin whose angle arrived as a string.
ControllerActionSamples ==
    { TuxAction("blink_eyes", P1("count", IntV(3))),
      TuxAction("open_eyes", NoParams),
      TuxAction("spin_right", P2("angle", IntV(8), "speed", IntV(3))),
      TuxAction("spin_left", P2("angle", StrV("fast"), "speed", IntV(3))),
      TuxAction("unmute", P1("state", IntV(0))) }

ControllerExecute ==
    /\ route = Idle
    /\ \E action \in ControllerActionSamples : controller_execute(action)
    /\ UNCHANGED route

\* {**driver_status, "last_action": ...}
Merge(status, key, value) ==
    [k \in DOMAIN status \cup {key} |-> IF k = key THEN value ELSE status[k]]

\* Mutant: the status carries no last_action.
ControllerStatus_NoLastAction == IF IsReal THEN get_status ELSE mock_get_status

\* TuxController.get_status: the value it returns
ControllerStatus ==
    Merge(IF IsReal THEN get_status ELSE mock_get_status, "last_action",
          IF last_action = NoAction THEN "None" ELSE last_action.action_type)

controller_get_status ==
    /\ route = Idle
    /\ result' = ControllerStatus
    /\ res' = Call("get_status")
    /\ UNCHANGED <<last_action, route>>
    /\ UNCHANGED <<driver_kind, env_vars, real_vars, mock_vars, enc_vars>>

\* Requests to /tux/speak: the text, and len(text.split()) for it.
SpeakTexts == { "hello tux", "a b c d e f g h i j k" }
WordCount(text) ==
    CASE text = "hello tux" -> 2
      [] text = "a b c d e f g h i j k" -> 11
SpeakLanguages == { "en" }

Min(a, b) == IF a < b THEN a ELSE b

\* speak_text up to the return of controller.move_mouth; ensure_connected
\* answers 503 before anything happens when the transport is not connected.
speak_text(text, language) ==
    /\ route = Idle
    /\ controller_is_connected
    /\ controller_execute(TuxAction("move_mouth",
                                    P1("count", IntV(Min(WordCount(text) * 2, 20)))))
    /\ route' = [pc |-> "annotate", text |-> text, language |-> language]

SpeakText ==
    \E text \in SpeakTexts, language \in SpeakLanguages : speak_text(text, language)

\* The rest of speak_text: the assignments into the record it got back.
\* result["params"] is the dict TuxAction.move_mouth built; _execute
\* returned it without a copy, self._last_action holds the action that holds
\* it, and the simulated transport's _log_action stored it in the entry it
\* appended: one object under three references, so every one of them reads
\* the two new keys.
speak_text_annotate ==
    /\ route.pc = "annotate"
    /\ LET annotated ==
               [k \in DOMAIN result.params \cup {"text", "language"} |->
                   IF k = "text" THEN StrV(route.text)
                   ELSE IF k = "language" THEN StrV(route.language)
                   ELSE result.params[k]]
       IN  /\ result' = [result EXCEPT
                           !.message = Fmt("TTS placeholder: '{}...' (mouth moved {} times)",
                                           <<StrV(route.text),
                                             IntV(WordCount(route.text) * 2)>>),
                           !.params = annotated]
           /\ last_action' = [last_action EXCEPT !.params = annotated]
           /\ mock_history' =
                  IF IsMock /\ res.ret
                      THEN [mock_history EXCEPT ![Len(mock_history)].params = annotated]
                      ELSE mock_history
    /\ res' = [res EXCEPT !.op = "speak_text"]
    /\ route' = Idle
    /\ UNCHANGED <<mock_connected, mock_state>>
    /\ UNCHANGED <<driver_kind, env_vars, real_vars, enc_vars>>

\* The /tux/custom route (src/backend/routes/tux_routes.py).  A response is
\* its HTTP status and its body.
Response(status, body) == [status |-> status, body |-> body]

\* create_response: the TuxResponse built from the record _execute returned
create_response(r) ==
    Response(200, [success |-> r.success, action |-> r.action,
                   message |-> r.message, params |-> r.params])

\* The keys of action_map
ActionMapKeys ==
    { "blink_eyes", "open_eyes", "close_eyes", "move_mouth", "open_mouth",
      "close_mouth", "wave_wings", "raise_wings", "lower_wings", "spin_left",
      "spin_right", "led_on", "led_off", "led_toggle", "play_sound", "sleep",
      "wake_up" }

LEDTargets == { "both", "left", "right" }
SleepModes == { "awake", "quick", "normal", "deep" }

\* LEDTarget(target) and SleepMode(mode) in Controller.led_on, led_off and
\* sleep raise ValueError for a value the enumeration lacks.
EnumRaises(action_type, params) ==
    LET IsMember(v, members) == v.isStr /\ v.s \in members
    IN  CASE action_type \in {"led_on", "led_off"} ->
                 ~IsMember(Get(params, "target", StrV("both")), LEDTargets)
          [] action_type = "sleep" ->
                 ~IsMember(Get(params, "mode", StrV("normal")), SleepModes)
          [] OTHER -> FALSE

\* The action the Controller method behind action_map[action_type] builds
\* from request.params.get(key, default).
ActionMapAction(action_type, params) ==
    LET arg(key, default) == Get(params, key, default)
    IN  CASE action_type \in {"blink_eyes", "move_mouth"} ->
                 TuxAction(action_type, P1("count", arg("count", IntV(1))))
          [] action_type = "wave_wings" ->
                 TuxAction(action_type, P2("count", arg("count", IntV(1)),
                                           "speed", arg("speed", IntV(3))))
          [] action_type \in {"spin_left", "spin_right"} ->
                 TuxAction(action_type, P2("angle", arg("angle", IntV(4)),
                                           "speed", arg("speed", IntV(3))))
          [] action_type \in {"led_on", "led_off"} ->
                 TuxAction(action_type, P1("target", arg("target", StrV("both"))))
          [] action_type = "led_toggle" ->
                 TuxAction(action_type, P2("count", arg("count", IntV(1)),
                                           "delay", arg("delay", IntV(25))))
          [] action_type = "play_sound" ->
                 TuxAction(action_type,
                           P2("sound_number", arg("sound_number", IntV(0)),
                              "volume", arg("volume", IntV(100))))
          [] action_type = "sleep" ->
                 TuxAction(action_type, P1("mode", arg("mode", StrV("normal"))))
          [] OTHER -> TuxAction(action_type, NoParams)

\* A request the route answers without calling the Controller.
custom_reject(status, action_type) ==
    /\ result' = Response(status, [detail |-> action_type])
    /\ res' = Call("custom_action")
    /\ UNCHANGED last_action
    /\ UNCHANGED <<driver_kind, env_vars, real_vars, mock_vars, enc_vars>>

\* result = action_func(); return create_response(result)
custom_dispatch(action_type, params) ==
    LET action == ActionMapAction(action_type, params)
    IN  /\ last_action' = action
        /\ \/ \E write_ok \in WriteOutcomes : execute_action(action, write_ok)
           \/ mock_execute_action(action)
        /\ result' = create_response(ExecuteResult(action, res'.ret, res'.raised))

\* Mutant: the route calls the Controller without looking the name up.
custom_action_NoLookup(action_type, params) ==
    /\ route = Idle
    /\ IF ~controller_is_connected THEN custom_reject(503, action_type)
       ELSE IF EnumRaises(action_type, params) THEN custom_reject(500, action_type)
       ELSE custom_dispatch(action_type, params)
    /\ UNCHANGED route

\* custom_action: ensure_connected answers 503, a name action_map lacks
\* 400, an exception out of the Controller method 500; otherwise the
\* method runs _execute and its record becomes the response.
custom_action(action_type, params) ==
    /\ route = Idle
    /\ IF ~controller_is_connected THEN custom_reject(503, action_type)
       ELSE IF action_type \notin ActionMapKeys THEN custom_reject(400, action_type)
       ELSE IF EnumRaises(action_type, params) THEN custom_reject(500, action_type)
       ELSE custom_dispatch(action_type, params)
    /\ UNCHANGED route

\* Requests to /tux/custom: the name the route's own test posts, a type of
\* the catalogue that action_map lacks, two registered names with
\* arguments, and a target LEDTarget does not know.
CustomRequests ==
    { TuxAction("invalid_action", NoParams),
      TuxAction("unmute", NoParams),
      TuxAction("blink_eyes", P1("count", IntV(3))),
      TuxAction("led_on", P1("target", StrV("left"))),
      TuxAction("led_on", P1("target", StrV("top"))) }

CustomAction ==
    \E request \in CustomRequests : custom_action(request.action_type, request.params)

----------------------------------------------------------------------------
(* Specifications                                                          *)

vars == <<enc_in, enc_out, driver_kind, pyusb, present, kernel_active,
          connected, device, endpoint_out, endpoint_in, last_error,
          commands_sent, commands_failed, kernel_driver_detached,
          mock_connected, mock_state, mock_history, res,
          last_action, result, route>>

\* TuxDriver.__init__, MockTuxDriver.__init__ and TuxController.__init__
Constructed ==
    /\ connected = FALSE
    /\ device = NoDevice
    /\ endpoint_out = FALSE
    /\ endpoint_in = FALSE
    /\ last_error = NoError
    /\ commands_sent = 0
    /\ commands_failed = 0
    /\ kernel_driver_detached = FALSE
    /\ mock_connected = FALSE
    /\ mock_state = DefaultState
    /\ mock_history = <<>>
    /\ res = NoCall
    /\ last_action = NoAction
    /\ result = NoResult
    /\ route = Idle

Init ==
    /\ enc_in = TuxAction("open_eyes", NoParams)
    /\ enc_out = NotEncoded
    /\ driver_kind \in {"hardware_usb", "mock"}
    /\ pyusb \in (IF driver_kind = "mock" THEN {TRUE} ELSE BOOLEAN)
    /\ present \in (IF driver_kind = "mock" THEN {FALSE} ELSE BOOLEAN)
    /\ kernel_active \in (IF present THEN BOOLEAN ELSE {FALSE})
    /\ Constructed

\* The transports called directly, as the test fixtures and scripts do.
Next ==
    \/ Connect /\ UNCHANGED ctl_vars
    \/ Disconnect /\ UNCHANGED ctl_vars
    \/ SendCommand /\ UNCHANGED ctl_vars
    \/ ExecuteAction /\ UNCHANGED ctl_vars
    \/ Unplug /\ UNCHANGED ctl_vars
    \/ Plug /\ UNCHANGED ctl_vars
    \/ mock_connect /\ UNCHANGED ctl_vars
    \/ mock_disconnect /\ UNCHANGED ctl_vars
    \/ MockSendCommand /\ UNCHANGED ctl_vars
    \/ MockExecuteAction /\ UNCHANGED ctl_vars
    \/ mock_clear_history /\ UNCHANGED ctl_vars
    \/ mock_reset_state /\ UNCHANGED ctl_vars

Spec == Init /\ [][Next]_vars

\* The simulated transport alone, driven through the actions that move the
\* simulated device.
MockInit ==
    /\ enc_in = TuxAction("open_eyes", NoParams)
    /\ enc_out = NotEncoded
    /\ driver_kind = "mock"
    /\ pyusb = TRUE
    /\ present = FALSE
    /\ kernel_active = FALSE
    /\ Constructed

MockNext ==
    \/ mock_connect /\ UNCHANGED ctl_vars
    \/ mock_disconnect /\ UNCHANGED ctl_vars
    \/ DeviceExecuteAction /\ UNCHANGED ctl_vars
    \/ mock_clear_history /\ UNCHANGED ctl_vars
    \/ mock_reset_state /\ UNCHANGED ctl_vars

SpecMock == MockInit /\ [][MockNext]_vars

\* The transport behind the Controller; clear_history stays a direct call
\* on the simulated transport, the Controller has no method for it.
CtlNext ==
    \/ controller_connect
    \/ controller_disconnect
    \/ ControllerExecute
    \/ controller_get_status
    \/ SpeakText
    \/ speak_text_annotate
    \/ CustomAction
    \/ route = Idle /\ mock_clear_history /\ UNCHANGED ctl_vars

SpecCtl == Init /\ [][CtlNext]_vars

Encode ==
    /\ enc_out.kind = "pending"
    /\ enc_out' = Encoding(enc_in)
    /\ UNCHANGED <<enc_in, driver_kind, env_vars, real_vars, mock_vars, res>>
    /\ UNCHANGED ctl_vars

EncInit ==
    /\ enc_in \in EncInputs
    /\ enc_out = NotEncoded
    /\ driver_kind = "hardware_usb"
    /\ pyusb = TRUE
    /\ present = TRUE
    /\ kernel_active = TRUE
    /\ Constructed

EncNext == Encode

SpecEnc == EncInit /\ [][EncNext]_vars

----------------------------------------------------------------------------
(* Claims about the encoder, checked under SpecEnc.                        *)

Encoded == enc_out.kind # "pending"
IsByte(v) == ~v.isStr /\ v.n \in 0..255

\* Keys the callers fill with numbers, per the factory signatures of
\* TuxAction; "target" and "mode" carry strings.
NumericKeys == { "count", "state", "angle", "speed", "delay", "volume", "sound_number" }
NumericParamsAreBytes(params) ==
    \A k \in DOMAIN params :
        /\ k \in NumericKeys => IsByte(params[k])
        /\ ~params[k].isStr => params[k].n \in 0..255

\* The sleep-mode table as the specification documents it.
SleepTable(params) ==
    IF "mode" \notin DOMAIN params \/ ~params["mode"].isStr THEN 2
    ELSE CASE params["mode"].s = "awake" -> 0
           [] params["mode"].s = "quick" -> 1
           [] params["mode"].s = "normal" -> 2
           [] params["mode"].s = "deep" -> 4
           [] OTHER -> 2

\* C1: encoding a SLEEP action puts the sleep-mode table value (awake 0,
\* quick 1, normal 2, deep 4, missing or unknown 2) in byte 1 of the wire
\* command, and encoding WAKE_UP puts 0 there whatever the params are.
\* The code sends both through the two-parameter branch (0xB7 < 0xC0), so
\* this statement is violated.
C1_SleepModeInByte1 ==
    (enc_out.kind = "bytes" /\ enc_in.action_type \in {"sleep", "wake_up"}) =>
        enc_out.bytes[2] = IF enc_in.action_type = "sleep"
                               THEN SleepTable(enc_in.params) ELSE 0

\* C2: for every ActionType with a code-table entry and every params bag
\* whose numeric values are bytes, _build_command returns exactly 4 bytes
\* and the first is the table's command code.
C2_FourBytesCodeFirst ==
    (Encoded /\ enc_in.action_type \in DOMAIN FIRMWARE_COMMANDS
             /\ NumericParamsAreBytes(enc_in.params)) =>
        /\ enc_out.kind = "bytes"
        /\ Len(enc_out.bytes) = 4
        /\ \A i \in 1..4 : enc_out.bytes[i] \in 0..255
        /\ enc_out.bytes[1] = FIRMWARE_COMMANDS[enc_in.action_type]

C2_Witness ==
    /\ enc_out.kind = "bytes"
    /\ enc_in.action_type = "wave_wings"
    /\ DOMAIN enc_in.params = {"count", "speed"}
    /\ enc_out.bytes = <<128, 255, 5, 0>>

\* C3: every ActionType variant has a code-table entry, so the lookup made
\* by execute_action never comes back empty.  Violated: led_pulse,
\* led_set_intensity and unmute have no entry.
C3_EveryTypeHasCode == Encoded => enc_out.kind # "unknown"

\* C4: for a code in 0x80..0xBF the bytes are [code, p1, p2, 0] with p1 =
\* count, else angle, else 1 and p2 = speed, else delay, else volume, else 3
\* (for byte-valued p1 and p2); no other key has any influence.
C4_P1(params) ==
    IF "count" \in DOMAIN params THEN params["count"]
    ELSE IF "angle" \in DOMAIN params THEN params["angle"] ELSE IntV(1)
C4_P2(params) ==
    IF "speed" \in DOMAIN params THEN params["speed"]
    ELSE IF "delay" \in DOMAIN params THEN params["delay"]
    ELSE IF "volume" \in DOMAIN params THEN params["volume"] ELSE IntV(3)
C5_P(params) ==
    IF "count" \in DOMAIN params THEN params["count"]
    ELSE IF "target" \in DOMAIN params THEN params["target"]
    ELSE IF "state" \in DOMAIN params THEN params["state"] ELSE IntV(1)
C5_OneParamLayout ==
    (Encoded /\ enc_in.action_type \in DOMAIN FIRMWARE_COMMANDS
             /\ FIRMWARE_COMMANDS[enc_in.action_type] \in 64..127) =>
        LET p == C5_P(enc_in.params)
            code == FIRMWARE_COMMANDS[enc_in.action_type]
        IN  /\ IsByte(p) => enc_out.kind = "bytes" /\ enc_out.bytes = <<code, p.n, 0, 0>>
            /\ (p.isStr /\ p.s = "both")  => enc_out.bytes = <<code, 3, 0, 0>>
            /\ (p.isStr /\ p.s = "left")  => enc_out.bytes = <<code, 1, 0, 0>>
            /\ (p.isStr /\ p.s = "right") => enc_out.bytes = <<code, 2, 0, 0>>

C5_Witness ==
    /\ enc_in.action_type = "blink_eyes"
    /\ DOMAIN enc_in.params = {"target", "state"}
    /\ enc_in.params["target"] = StrV("right")
    /\ enc_out.bytes = <<64, 2, 0, 0>>

\* C26: for a code below 0x40 the bytes are [code, 0, 0, 0] whatever the
\* params hold: led_on and led_off encode to the same bytes for target
\* left, right and both.
C26_VoidIgnoresParams ==
    (Encoded /\ enc_in.action_type \in DOMAIN FIRMWARE_COMMANDS
             /\ FIRMWARE_COMMANDS[enc_in.action_type] < 64) =>
        /\ enc_out.kind = "bytes"
        /\ enc_out.bytes = <<FIRMWARE_COMMANDS[enc_in.action_type], 0, 0, 0>>
        /\ enc_in.action_type = "led_on" => enc_out.bytes = <<26, 0, 0, 0>>
        /\ enc_in.action_type = "led_off" => enc_out.bytes = <<27, 0, 0, 0>>

C26_Witness ==
    /\ enc_in.action_type = "led_on"
    /\ DOMAIN enc_in.params = {"target", "count"}
    /\ enc_in.params["target"] = StrV("right")
    /\ enc_in.params["count"] = IntV(256)
    /\ enc_out.bytes = <<26, 0, 0, 0>>

----------------------------------------------------------------------------
(* Claims about the transports, checked under Spec.                        *)

RealCall(op) == IsReal /\ res.op = op

\* C6: on the real transport, send_command while not connected returns
\* False, writes nothing to the device, adds exactly one to commands_failed
\* and leaves commands_sent and the connection state as they were.
C6_SendWhileDisconnected ==
    (RealCall("send_command") /\ ~res.pre_is_connected) =>
        /\ res.ret = FALSE
        /\ res.writes = <<>>
        /\ commands_failed = res.pre_failed + 1
        /\ commands_sent = res.pre_sent
        /\ connected = res.pre_connected
        /\ device = res.pre_device
        /\ ~is_connected

C6_Witness ==
    /\ RealCall("send_command")
    /\ ~res.pre_is_connected
    /\ res.pre_failed = 1
    /\ commands_failed = 2

\* C7: on the real transport, send_command while connected makes exactly
\* one device write, whatever the length of its argument, and the payload
\* is the argument cut to its first 4 bytes or right-padded with zeros.
C7_OneWriteOfFourBytes ==
    (RealCall("send_command") /\ res.pre_is_connected) =>
        /\ Len(res.writes) = 1
        /\ Len(res.writes[1].data) = 4
        /\ \A i \in 1..4 :
              res.writes[1].data[i] = IF i <= Len(res.cmd) THEN res.cmd[i] ELSE 0

C7_Witness ==
    /\ RealCall("send_command")
    /\ res.pre_is_connected
    /\ Len(res.cmd) > CMD_SIZE
    /\ res.ret = TRUE
    /\ res.writes[1].data = <<255, 0, 67, 68>>

\* C8: on the real transport every failing connect, send_command or
\* execute_action returns False without raising and leaves a non-null
\* last_error behind.  Violated: a send or execute while disconnected, an
\* unknown action type and a failed device write set no last_error.
C8_FailureRetainsError ==
    (IsReal /\ res.op \in {"connect", "send_command", "execute_action"}
            /\ res.ret = FALSE) =>
        /\ ~res.raised
        /\ last_error # NoError

\* C9: on the real transport every execute_action that returns False adds
\* one to commands_failed.  Violated: only a failed write is counted.
C9_FailedExecuteIsCounted ==
    (RealCall("execute_action") /\ res.ret = FALSE) =>
        commands_failed = res.pre_failed + 1

\* C10: on both transports disconnect() never raises, returns the same
\* boolean every time (fixed by the transport and by whether the usb
\* package imports), leaves is_connected() False, and a second consecutive
\* disconnect() releases nothing and reattaches nothing.
C10_DisconnectIdempotent ==
    res.op = "disconnect" =>
        /\ ~res.raised
        /\ res.ret = (IF IsReal THEN pyusb ELSE TRUE)
        /\ IF IsReal THEN ~is_connected ELSE ~mock_connected
        /\ res.after_disconnect => ~res.disposed /\ ~res.reattached

C10_Witness ==
    /\ RealCall("disconnect")
    /\ res.after_disconnect
    /\ kernel_driver_detached
    /\ res.ret = TRUE

\* The connection state as the transport in use reports it.
ConnectionState == IF IsReal THEN is_connected ELSE mock_connected

\* C11: on both transports, execute_action of an action whose type has no
\* code-table entry returns False, raises nothing and leaves the connection
\* state as it was.  Violated on the simulated transport: connected, it
\* raises for a type that is no ActionType and returns True for the
\* ActionTypes the table lacks.
C11_UnknownTypeFailsCleanly ==
    (res.op = "execute_action" /\ LookupCode(res.action.action_type) = None) =>
        /\ res.ret = FALSE
        /\ ~res.raised
        /\ ConnectionState = res.pre_is_connected

\* C12: on the simulated transport a history entry, once appended, never
\* changes: every entry that is still in the history after a step reads as
\* it did before the step (clear_history removes entries, it rewrites
\* none).  Violated: the /tux/speak route writes "text" and "language" into
\* the params dict the Controller handed back, which is the very dict the
\* entry of the move_mouth it just executed holds.
C12_HistoryEntriesNeverChange ==
    [][\A i \in 1..Len(mock_history) :
          i <= Len(mock_history') => mock_history'[i] = mock_history[i]]_vars

\* C13: on the simulated transport actions_executed, as get_status reports
\* it, is the number of actions executed through execute_action since
\* construction or the last clear_history, i.e. the number of history
\* entries execute_action appended.  Violated: connect() and disconnect()
\* append entries too, so connect() and one blink_eyes give 2.
ExecutedActions ==
    Cardinality({ i \in DOMAIN mock_history : mock_history[i].action \in ActionType })
C13_ActionsExecutedCountsExecutions ==
    IsMock => mock_get_status.actions_executed = ExecutedActions

\* C14: for every action the Controller dispatches and every connection
\* state, execute_action answers with the connection state it found: the
\* simulated transport always, the real transport whenever the device is
\* present and each of its writes went through; hence the same boolean on
\* both.  (Stated for numeric parameters that are bytes.)  Violated: the
\* connected real transport answers False for unmute and led_pulse, which
\* have no firmware code, where the connected simulated transport answers
\* True.
C14_SameAnswerOnBothTransports ==
    ( /\ res.op = "execute_action"
      /\ res.action.action_type \in ActionType
      /\ NumericParamsAreBytes(res.action.params)
      /\ IsReal => present /\ \A i \in DOMAIN res.writes : res.writes[i].ok ) =>
        /\ ~res.raised
        /\ res.ret = res.pre_is_connected

\* C15: an action method of the Controller hands back a record {success,
\* action, params, message}: success is what the transport's execute_action
\* returned, action the type's name, params the action's parameters; on a
\* connected simulated transport success is True unless the transport
\* raised, and when the transport returned False or raised the record has
\* success False and a message.  (The /tux/custom route hands the record
\* on as the body of its response.)
ExecuteRecord == IF "status" \in DOMAIN result THEN result.body ELSE result
TransportStatus == IF IsReal THEN get_status ELSE mock_get_status
C16_StatusCarriesLastAction ==
    /\ (last_action = NoAction)
    /\ [](res.op = "get_status" =>
            /\ DOMAIN result = DOMAIN TransportStatus \cup {"last_action"}
            /\ \A k \in DOMAIN TransportStatus : result[k] = TransportStatus[k]
            /\ result["last_action"] =
                   IF last_action = NoAction THEN "None" ELSE last_action.action_type)
    /\ [][ /\ res'.op = "execute_action" =>
                 last_action'.action_type = res'.action.action_type
           /\ res'.op \in {"connect", "disconnect", "get_status", "clear_history"} =>
                 last_action' = last_action
           /\ res'.op = "speak_text" =>
                 last_action'.action_type = last_action.action_type ]_vars

\* get_status after an action that failed on the real transport.
C16_Witness ==
    /\ res.op = "get_status"
    /\ IsReal
    /\ commands_failed = 1
    /\ last_action.action_type = "blink_eyes"
    /\ result["last_action"] = "blink_eyes"
    /\ result["commands_failed"] = 1

----------------------------------------------------------------------------
(* Claims about the simulated device, checked under SpecMock.              *)

\* The step is an execute_action of the given type that went through.
Executed(action_type) ==
    /\ res'.op = "execute_action"
    /\ res'.ret
    /\ res'.action.action_type = action_type

Angle(action) == action.params["angle"].n

LedsSet(state, target, value) ==
    [state EXCEPT
        !.leds_left  = IF target \in {"left", "both"} THEN value ELSE @,
        !.leds_right = IF target \in {"right", "both"} THEN value ELSE @]
C19_BlinkFrame ==
    [][ (res'.op = "execute_action" /\ res'.pre_is_connected
             /\ res'.action.action_type = "blink_eyes") =>
            /\ res'.ret
            /\ mock_state' = mock_state
            /\ Len(mock_history') = Len(mock_history) + 1
            /\ SubSeq(mock_history', 1, Len(mock_history)) = mock_history
            /\ LET entry == mock_history'[Len(mock_history')]
               IN  /\ entry.action = "blink_eyes"
                   /\ entry.message = [ text |-> "Eyes blinked {} time(s)",
                                        args |-> <<res'.action.params["count"]>> ]
                   /\ entry.state_snapshot = mock_state
      ]_vars

\* connect() and then blink_eyes(count=3) with an LED on.
C19_Witness ==
    /\ res.op = "execute_action"
    /\ res.ret
    /\ mock_state.leds_left = "on"
    /\ Len(mock_history) = 2
    /\ mock_history[1].action = "CONNECT"
    /\ mock_history[2].action = "blink_eyes"
    /\ mock_history[2].message.args = <<IntV(3)>>

\* C20: on the simulated transport reset_state() puts the device state back
\* to eyes open, mouth closed, wings lowered, both LEDs off, not sleeping,
\* rotation 0 and leaves the history and the connection flag alone;
\* clear_history() empties the history and leaves the device state and the
\* connection flag alone.
C20_ResetAndClearFrame ==
    [][ /\ res'.op = "reset_state" =>
              /\ mock_state' = [ eyes |-> "open", mouth |-> "closed",
                                 wings |-> "lowered", leds_left |-> "off",
                                 leds_right |-> "off", sleeping |-> FALSE,
                                 rotation |-> 0 ]
              /\ mock_history' = mock_history
              /\ mock_connected' = mock_connected
        /\ res'.op = "clear_history" =>
              /\ mock_history' = <<>>
              /\ mock_state' = mock_state
              /\ mock_connected' = mock_connected
      ]_vars

\* reset_state() on a connected transport whose history shows a device
\* that had turned and had an LED on.
C20_Witness ==
    /\ res.op = "reset_state"
    /\ mock_connected
    /\ mock_state = DefaultState
    /\ Len(mock_history) = 2
    /\ mock_history[2].state_snapshot.rotation = 90
    /\ mock_history[2].state_snapshot.leds_right = "on"

----------------------------------------------------------------------------
(* The /tux/custom route                                                   *)

\* The step answered a /tux/custom request for this action name.
CustomAnswered(r, c) ==
    /\ "status" \in DOMAIN r
    /\ c.op \in {"custom_action", "execute_action"}

RequestedName(r) == IF r.status = 200 THEN r.body.action ELSE r.body.detail

\* C21: a /tux/custom request made while the Controller is connected, whose
\* action_type is not one of the supported names, is answered with HTTP
\* 400 and dispatches nothing: last_action, both transports' state and the
\* simulated history are what they were before the request.
C21_UnknownNameIsRejected ==
    [][ ( /\ CustomAnswered(result', res')
          /\ controller_is_connected
          /\ RequestedName(result') \notin ActionMapKeys )
        => ( /\ result'.status = 400
             /\ UNCHANGED <<last_action, real_vars, mock_vars>> ) ]_vars

C21_Witness ==
    /\ res.op = "custom_action"
    /\ res.pre_is_connected
    /\ result = Response(400, [detail |-> "invalid_action"])
    /\ last_action # NoAction

----------------------------------------------------------------------------
(* Connection life cycle of the real transport                             *)

\* C22: disconnect() reattaches the kernel driver only if one was detached
\* since the previous disconnect.  The record of a detachment does not
\* survive a disconnect, and a connect() that follows a disconnect and
\* detaches nothing is not followed by a reattach.
C22_ReattachOnlyWhatWasDetached ==
    /\ [](RealCall("disconnect") /\ res.ret => ~kernel_driver_detached)
    /\ [][ ( /\ IsReal
             /\ res.op = "connect" /\ res.after_disconnect /\ ~res.detached
             /\ res'.op = "disconnect" /\ res' # res )
           => ~res'.reattached ]_vars

\* C23: whenever connect() on the real transport returns False, also when
\* the transport was Connected before the call, is_connected() is False
\* afterwards.
C23_FailedConnectLeavesDisconnected ==
    RealCall("connect") /\ ~res.ret => ~is_connected

\* C24: the real transport holds at most one device link: a connect() that
\* acquires a device handle either held none at entry or released the one
\* it held first.
C24_OneDeviceLink ==
    (RealCall("connect") /\ pyusb /\ device # NoDevice)
        => (res.pre_device = NoDevice \/ res.disposed)

\* C25: a connect() on the real transport that gets as far as the liveness
\* probe has set the state to Connected before the probe is sent, and
\* returns True with the transport Connected in each of the probe's three
\* outcomes: the write fails, it is written and no reply arrives, a reply
\* arrives.  The probe is the one write of the call, the padded ping.
C25_ProbeNeverFailsConnect ==
    (RealCall("connect") /\ res.probe # "none")
        => /\ res.probe \in {"write_failed", "no_reply", "reply"}
           /\ res.probe_connected
           /\ res.ret
           /\ connected /\ device # NoDevice
           /\ Len(res.writes) = 1
           /\ res.writes[1].data = PING
           /\ res.writes[1].ok = (res.probe # "write_failed")

C25_Witness ==
    /\ RealCall("connect") /\ res.probe = "write_failed"
    /\ res.ret /\ is_connected

\* C28: the real transport's two counters never decrease; connect() and
\* disconnect() leave both as they were, the probe connect() sends
\* included; a send_command call adds exactly one to exactly one of them,
\* commands_sent when it returns True and commands_failed otherwise.
C28_CountersOnlyCount ==
    /\ []( /\ (RealCall("connect") \/ RealCall("disconnect"))
                => /\ commands_sent = res.pre_sent
                   /\ commands_failed = res.pre_failed
           /\ RealCall("send_command")
                => /\ commands_sent = res.pre_sent + (IF res.ret THEN 1 ELSE 0)
                   /\ commands_failed = res.pre_failed + (IF res.ret THEN 0 ELSE 1) )
    /\ [][ IsReal => /\ commands_sent' >= commands_sent
                     /\ commands_failed' >= commands_failed ]_vars

C28_Witness ==
    /\ RealCall("connect") /\ res.ret
    /\ res.probe = "reply" /\ Len(res.writes) = 1
    /\ res.pre_sent = 1 /\ res.pre_failed = 1
    /\ commands_sent = 1 /\ commands_failed = 1

\* A number no byte can hold.
OutOfRange(v) == ~v.isStr /\ v.n \notin 0..255

\* The values of an action that _build_command places in the frame: none
\* for a type without a code or with a code below 0x40, one for
\* 0x40..0x7F, two for 0x80..0xBF, three from 0xC0.
WireValues(action) ==
    LET command_code == LookupCode(action.action_type)
    IN  IF command_code = None \/ command_code < 64 THEN {}
        ELSE IF command_code < 128 THEN { OneParam(action.params) }
        ELSE IF command_code < 192
            THEN { TwoParam1(action.params), TwoParam2(action.params) }
        ELSE { ThreeParam1(action), Get(action.params, "param2", IntV(0)),
               Get(action.params, "param3", IntV(0)) }

\* What the claim says of a refused action: False, no exception, nothing
\* written, still Connected.
RefusedCleanly ==
    /\ ~res.ret /\ ~res.raised
    /\ res.writes = <<>>
    /\ connected /\ device # NoDevice

----------------------------------------------------------------------------
(* History and state of the simulated transport                            *)

\* C27: on the simulated transport every execute_action that returns True
\* appends exactly one entry at the end of the history, for the action it
\* was given and with a snapshot equal to the DeviceState right after the
\* mutation.  Unless the history is cleared, no step reorders the earlier
\* entries or changes their snapshots, whatever it does to the DeviceState.
C27_OneEntryPerExecution ==
    [][ /\ (IsMock /\ res'.op = "execute_action" /\ res'.ret /\ res' # res)
            => /\ Len(mock_history') = Len(mock_history) + 1
               /\ mock_history'[Len(mock_history')].action = res'.action.action_type
               /\ mock_history'[Len(mock_history')].params = res'.action.params
               /\ mock_history'[Len(mock_history')].state_snapshot = mock_state'
        /\ (IsMock /\ res'.op # "clear_history")
            => /\ Len(mock_history') >= Len(mock_history)
               /\ \A i \in 1..Len(mock_history) :
                      /\ mock_history'[i].action = mock_history[i].action
                      /\ mock_history'[i].state_snapshot = mock_history[i].state_snapshot
      ]_vars

C27_Witness ==
    /\ IsMock /\ res.op = "execute_action" /\ res.ret
    /\ Len(mock_history) = 2
    /\ \A i \in 1..2 : mock_history[i].action \notin {"CONNECT", "DISCONNECT"}
    /\ mock_history[1].state_snapshot # mock_history[2].state_snapshot
    /\ mock_history[2].state_snapshot = mock_state

\* C29: on the simulated transport, execute_action and send_command called
\* while Disconnected return False and leave the DeviceState and the
\* history unchanged; connect() and disconnect() never change the
\* DeviceState.
C29_DisconnectedCallsChangeNothing ==
    [][ IsMock =>
          /\ (res' # res /\ res'.op \in {"execute_action", "send_command"}
                /\ ~mock_connected)
                => /\ ~res'.ret /\ ~res'.raised
                   /\ UNCHANGED <<mock_state, mock_history, mock_connected>>
          /\ (res' # res /\ res'.op \in {"connect", "disconnect"})
                => UNCHANGED mock_state ]_vars

C29_Witness ==
    /\ IsMock /\ res.op = "execute_action" /\ ~res.pre_is_connected /\ ~res.ret
    /\ res.action.action_type = "close_eyes"
    /\ mock_state # DefaultState
    /\ Len(mock_history) = 2
    /\ mock_history[2].action = "DISCONNECT"
    /\ mock_history[2].state_snapshot = mock_state

====
